---- MODULE Spec2Model ----
(***************************************************************************)
(* The agent session of backend/agentd (session.go): construction, Start,  *)
(* the receiver, the sender, the supervisor's stop routine and Stop, with  *)
(* the bus, the store and the transport as nondeterministic collaborators. *)
(* Each critical section of s.mu is one action: the mutex makes it atomic. *)
(***************************************************************************)
EXTENDS Integers, Sequences, FiniteSets, TLC

(* ------------------------------------------------------------------ *)
(* Bounds of the model                                                 *)
(* ------------------------------------------------------------------ *)
\* watch events published on the entity-config topic by other daemons
MaxWatch == 1
\* check requests waiting on the check channel
MaxChecks == 1
\* failures of the collaborators (bus, store, codec, transport) in one run
MaxFaults == 1
\* length of the lists given to diff and sortSubscriptions when they are
\* exercised on their own
MaxLen == 3

(* ------------------------------------------------------------------ *)
(* Program constants                                                   *)
(* ------------------------------------------------------------------ *)
\* make(chan interface{}, 100)
checkChannelCap == 100
\* make(chan interface{}, 10)
updatesChannelCap == 10
\* make(chan messaging.Subscription, 1)
slotCap == 1

Namespace == "default"
AgentName == "node-1"
EntityNotFound == "EntityNotFound"
EntityAgentClass == "agent"
ManagedBySensuAgent == "sensu-agent"

(* ------------------------------------------------------------------ *)
(* Strings: the order strings.Compare and sort.Strings use, restricted *)
(* to the subscription names of the model.                             *)
(* ------------------------------------------------------------------ *)
NameOrder == <<"", "a", "b", "c", "entity:node-1">>

Names == {NameOrder[i] : i \in 1..Len(NameOrder)}

Rank(x) == CHOOSE i \in 1..Len(NameOrder) : NameOrder[i] = x

\* strings.Compare
Compare(x, y) ==
    IF Rank(x) < Rank(y) THEN -1 ELSE IF Rank(x) > Rank(y) THEN 1 ELSE 0

Range(s) == {s[i] : i \in 1..Len(s)}

\* the characters of the strings the model gives to strings.HasPrefix
Chars(x) ==
    CASE x = "" -> <<>>
      [] x = "a" -> <<"a">>
      [] x = "b" -> <<"b">>
      [] x = "c" -> <<"c">>
      [] x = "entity:" -> <<"e", "n", "t", "i", "t", "y", ":">>
      [] x = "entity:node-1" ->
           <<"e", "n", "t", "i", "t", "y", ":", "n", "o", "d", "e", "-", "1">>

\* strings.HasPrefix
HasPrefix(x, prefix) ==
    /\ Len(Chars(prefix)) <= Len(Chars(x))
    /\ SubSeq(Chars(x), 1, Len(Chars(prefix))) = Chars(prefix)

\* messaging.SubscriptionTopic(namespace, sub)
SubscriptionTopic(ns, sub) == <<"subscription", ns, sub>>

\* messaging.EntityConfigTopic(namespace, name)
EntityConfigTopic(ns, name) == <<"entity_config", ns, name>>

(* ------------------------------------------------------------------ *)
(* Pure functions of session.go                                        *)
(* ------------------------------------------------------------------ *)
RECURSIVE removeEmptySubscriptions(_)
removeEmptySubscriptions(subscriptions) ==
    IF subscriptions = <<>> THEN <<>>
    ELSE IF Head(subscriptions) # ""
         THEN <<Head(subscriptions)>> \o removeEmptySubscriptions(Tail(subscriptions))
         ELSE removeEmptySubscriptions(Tail(subscriptions))

\* sort.StringsAreSorted
StringsAreSorted(s) ==
    \A i \in 1..(Len(s) - 1) : Compare(s[i + 1], s[i]) >= 0

RECURSIVE InsertSorted(_, _)
InsertSorted(x, s) ==
    IF s = <<>> THEN <<x>>
    ELSE IF Compare(x, Head(s)) < 0 THEN <<x>> \o s
         ELSE <<Head(s)>> \o InsertSorted(x, Tail(s))

\* sort.Strings
RECURSIVE SortStrings(_)
SortStrings(s) ==
    IF s = <<>> THEN <<>> ELSE InsertSorted(Head(s), SortStrings(Tail(s)))

\* sortSubscriptions without the removal of the empty names
sortWithoutFilter(subscriptions) ==
    IF StringsAreSorted(subscriptions) THEN subscriptions ELSE SortStrings(subscriptions)

sortSubscriptions(subscriptions) ==
    LET s == removeEmptySubscriptions(subscriptions)
    IN  IF StringsAreSorted(s) THEN s ELSE SortStrings(s)

\* diff(old, new): the two-pointer merge; i and j count from 1 here.
RECURSIVE diffFrom(_, _, _, _, _, _)
diffFrom(old, new, i, j, added, removed) ==
    IF i <= Len(old) /\ j <= Len(new)
    THEN LET c == Compare(old[i], new[j])
         IN  IF c = 0 THEN diffFrom(old, new, i + 1, j + 1, added, removed)
             ELSE IF c < 0
                  THEN diffFrom(old, new, i + 1, j, added, Append(removed, old[i]))
                  ELSE diffFrom(old, new, i, j + 1, Append(added, new[j]), removed)
    ELSE [added   |-> added \o SubSeq(new, j, Len(new)),
          removed |-> removed \o SubSeq(old, i, Len(old))]

\* diff with its two results exchanged
diffSwapped(old, new) ==
    LET d == diffFrom(old, new, 1, 1, <<>>, <<>>)
    IN  [added |-> d.removed, removed |-> d.added]

\* diff without the two appends after its loop
RECURSIVE diffFromNoTail(_, _, _, _, _, _)
diffFromNoTail(old, new, i, j, added, removed) ==
    IF i <= Len(old) /\ j <= Len(new)
    THEN LET c == Compare(old[i], new[j])
         IN  IF c = 0 THEN diffFromNoTail(old, new, i + 1, j + 1, added, removed)
             ELSE IF c < 0
                  THEN diffFromNoTail(old, new, i + 1, j, added, Append(removed, old[i]))
                  ELSE diffFromNoTail(old, new, i, j + 1, Append(added, new[j]), removed)
    ELSE [added |-> added, removed |-> removed]

diffNoTail(old, new) == diffFromNoTail(old, new, 1, 1, <<>>, <<>>)

diff(old, new) == diffFrom(old, new, 1, 1, <<>>, <<>>)


(* ------------------------------------------------------------------ *)
(* Inputs                                                              *)
(* ------------------------------------------------------------------ *)
\* cfg.Subscriptions as the agent reported them at the handshake
AgentSubscriptionsChoices == { <<"b", "", "a">> }

NoEntity ==
    [name |-> "", class |-> "", subs |-> <<>>, managedBy |-> "", deregister |-> FALSE]

\* entity configs the store may hold for the agent
StoredEntities ==
    { [name |-> AgentName, class |-> EntityAgentClass, subs |-> <<"c", "b">>,
       managedBy |-> ManagedBySensuAgent, deregister |-> FALSE] }

\* watch events other daemons publish on the entity-config topic
WatchEvents ==
    { [action |-> "Delete", hasEntity |-> FALSE, entity |-> NoEntity],
      [action |-> "Unknown", hasEntity |-> FALSE, entity |-> NoEntity],
      [action |-> "Update", hasEntity |-> FALSE, entity |-> NoEntity],
      [action |-> "Update", hasEntity |-> TRUE,
       entity |-> [name |-> AgentName, class |-> "proxy", subs |-> <<"a">>,
                   managedBy |-> "", deregister |-> FALSE]],
      [action |-> "Update", hasEntity |-> TRUE,
       entity |-> [name |-> AgentName, class |-> EntityAgentClass, subs |-> <<"a", "c">>,
                   managedBy |-> "", deregister |-> TRUE]],
      [action |-> "Update", hasEntity |-> TRUE,
       entity |-> [name |-> AgentName, class |-> EntityAgentClass, subs |-> <<"a", "a">>,
                   managedBy |-> ManagedBySensuAgent, deregister |-> FALSE]] }

NoEvent == [action |-> "None", hasEntity |-> FALSE, entity |-> NoEntity]

NoMsg == [type |-> "None", managedBy |-> ""]

NoRec ==
    [old |-> <<>>, new |-> <<>>, preKeys |-> {}, subscribed |-> {}, cancelled |-> {},
     ok |-> TRUE, quiet |-> FALSE]

(* ------------------------------------------------------------------ *)
(* State                                                               *)
(* ------------------------------------------------------------------ *)
VARIABLES
    pcStart,          \* position of NewSession / Start
    startResult,      \* "none", "ok" or "err": what Start returned
    startSubs,        \* Start's local copy subs (line 544)
    lookup,           \* what storev2.Get returned to Start
    storedEntityConfig, \* Start's local storedEntityConfig (line 512)
    published,        \* watch events Start published on the entity-config topic
    agentSubs,        \* cfg.Subscriptions as given to NewSession
    pcSender,         \* position of the sender goroutine
    senderEvent,      \* the watch event the sender is handling
    added, removed,   \* the sender's locals of line 375
    msg,              \* the frame the sender is about to Send
    senderExit,       \* why the sender returned
    rec,              \* record of the sender's reconciliation in progress
    pcRecv,           \* position of the receiver goroutine
    recvExit,         \* why the receiver returned
    fatal,            \* the receiver ran `go s.Stop()` (line 283)
    pcStop,           \* position of the supervisor goroutine and its stop()
    stopSubs,         \* stop's local subs (line 592)
    stopLog,          \* the steps stop() has performed, in order
    stopCall,         \* position of a caller of Stop()
    ctxDone,          \* the session context is cancelled
    cfgSubs,          \* s.cfg.Subscriptions
    subscriptionsMap, \* s.subscriptionsMap: topic -> handle
    deregister,       \* s.deregister
    slot, slotClosed, \* s.entityConfig.subscriptions
    updatesChannel, updatesClosed, \* s.entityConfig.updatesChannel
    checkChannel, checkClosed,     \* s.checkChannel
    handles,          \* every subscription the bus returned: topic, Cancel calls, active
    connClosed,       \* conn.Closed()
    closeCalls,       \* calls of conn.Close
    storeWrites,      \* entities given to storev2.CreateOrUpdate
    gauge,            \* sessionCounter of the namespace
    wg, stopWG,       \* counters of s.wg and s.stopWG
    burial,           \* what NewSession published on the keepalive topic
    ringPool,         \* s.ringPool is not nil
    ringRemoves,      \* the rings ring.Remove was called on, in order
    nWatch,           \* how many watch events other daemons have published
    nFaults,          \* how many collaborator calls have failed
    pcFn,             \* position of a caller of diff, sortSubscriptions or
                      \* unsubscribe alone
    argOld, argNew,   \* the lists given to diff; argOld also to sortSubscriptions
                      \* and unsubscribe, argNew then what each ring.Remove does
    fnResult          \* what diff or sortSubscriptions returned

vars ==
    << pcStart, startResult, startSubs, lookup, storedEntityConfig, published, agentSubs,
       pcSender, senderEvent, added, removed, msg, senderExit, rec,
       pcRecv, recvExit, fatal,
       pcStop, stopSubs, stopLog, stopCall, ctxDone,
       cfgSubs, subscriptionsMap, deregister, slot, slotClosed,
       updatesChannel, updatesClosed, checkChannel, checkClosed,
       handles, connClosed, closeCalls, storeWrites,
       gauge, wg, stopWG, burial, ringPool, ringRemoves, nWatch, nFaults,
       pcFn, argOld, argNew, fnResult >>

startVars == << pcStart, startResult, startSubs, lookup, storedEntityConfig, published >>
senderVars == << pcSender, senderEvent, added, removed, msg, senderExit, rec >>
recvVars == << pcRecv, recvExit, fatal >>
stopVars == << pcStop, stopSubs, stopLog >>
subsVars == << cfgSubs, subscriptionsMap, deregister, handles >>
chanVars == << updatesChannel, updatesClosed, checkChannel, checkClosed >>
slotVars == << slot, slotClosed >>
connVars == << connClosed, closeCalls >>
sessionVars ==
    << pcStart, startResult, startSubs, lookup, storedEntityConfig, published, agentSubs,
       pcSender, senderEvent, added, removed, msg, senderExit, rec,
       pcRecv, recvExit, fatal,
       pcStop, stopSubs, stopLog, stopCall, ctxDone,
       cfgSubs, subscriptionsMap, deregister, slot, slotClosed,
       updatesChannel, updatesClosed, checkChannel, checkClosed,
       handles, connClosed, closeCalls, storeWrites,
       gauge, wg, stopWG, burial, ringPool, ringRemoves, nWatch, nFaults >>
fnVars == << pcFn, argOld, argNew, fnResult >>

NoResult == [added |-> <<>>, removed |-> <<>>, sorted |-> <<>>, sortedAgain |-> <<>>]

EmptyMap == [t \in {} |-> 0]

\* the session as NewSession receives its configuration
SessionInit ==
    /\ pcStart = "new"
    /\ startResult = "none"
    /\ startSubs = <<>>
    /\ lookup = "none"
    /\ storedEntityConfig = NoEntity
    /\ published = <<>>
    /\ agentSubs \in AgentSubscriptionsChoices
    /\ pcSender = "idle"
    /\ senderEvent = NoEvent
    /\ added = <<>>
    /\ removed = <<>>
    /\ msg = NoMsg
    /\ senderExit = "none"
    /\ rec = NoRec
    /\ pcRecv = "idle"
    /\ recvExit = "none"
    /\ fatal = FALSE
    /\ pcStop = "idle"
    /\ stopSubs = <<>>
    /\ stopLog = <<>>
    /\ stopCall = "none"
    /\ ctxDone = FALSE
    /\ cfgSubs = agentSubs
    /\ subscriptionsMap = EmptyMap
    /\ deregister = FALSE
    /\ slot = <<>>
    /\ slotClosed = FALSE
    /\ updatesChannel = <<>>
    /\ updatesClosed = FALSE
    /\ checkChannel = <<>>
    /\ checkClosed = FALSE
    /\ handles = <<>>
    /\ connClosed = FALSE
    /\ closeCalls = 0
    /\ storeWrites = <<>>
    /\ gauge = 0
    /\ wg = 0
    /\ stopWG = 0
    /\ burial = <<>>
    /\ ringRemoves = <<>>
    /\ nWatch = 0
    /\ nFaults = 0

\* the backend gives every session its ring pool
Init ==
    /\ SessionInit
    /\ ringPool = TRUE
    /\ pcFn = "off"
    /\ argOld = <<>>
    /\ argNew = <<>>
    /\ fnResult = NoResult

(* ------------------------------------------------------------------ *)
(* Collaborator outcomes                                               *)
(* ------------------------------------------------------------------ *)
\* whether a call of a collaborator may still fail in this run
MayFail == nFaults < MaxFaults

\* the outcomes (TRUE: success) a call of a collaborator can have
Outcomes == IF MayFail THEN BOOLEAN ELSE {TRUE}

\* the fault counter after a call with outcome ok
Counted(ok) == IF ok THEN nFaults ELSE nFaults + 1

(* ------------------------------------------------------------------ *)
(* The bus: subscriptions and delivery                                 *)
(* ------------------------------------------------------------------ *)
\* the gauge sessionCounter: Inc and Dec
Inc(g) == g + 1

\* a Dec that does nothing
DecNothing(g) == g

Dec(g) == g - 1

NewHandle(topic) == [topic |-> topic, cancels |-> 0, active |-> TRUE]

MapPut(m, topic, h) ==
    [t \in DOMAIN m \cup {topic} |-> IF t = topic THEN h ELSE m[t]]

MapDelete(m, topic) == [t \in DOMAIN m \ {topic} |-> m[t]]

\* Subscription.Cancel on handle h; it returns an error when failed is TRUE
Cancel(hs, h, failed) ==
    [hs EXCEPT ![h] = [@ EXCEPT !.cancels = @ + 1,
                                !.active = IF failed THEN @ ELSE FALSE]]

\* the entity-config topic has a subscriber the bus still delivers to
EntityConfigSubscribed ==
    \E h \in 1..Len(handles) :
        /\ handles[h].topic = EntityConfigTopic(Namespace, AgentName)
        /\ handles[h].active

\* some check-subscription topic has a subscriber the bus still delivers to
CheckSubscribed ==
    \E h \in 1..Len(handles) :
        /\ handles[h].topic # EntityConfigTopic(Namespace, AgentName)
        /\ handles[h].active

\* bus.Publish on the entity-config topic: the event lands on the updates
\* channel of every active subscription (the session has at most one)
Deliver(ch, event) == IF EntityConfigSubscribed THEN Append(ch, event) ELSE ch

(* ------------------------------------------------------------------ *)
(* Session.subscribe and Session.unsubscribe                           *)
(* ------------------------------------------------------------------ *)
\* subscribe(subscriptions) from index i on; bus.Subscribe fails at index failAt
RECURSIVE subscribeFrom(_, _, _, _, _, _)
subscribeFrom(subscriptions, i, m, hs, called, failAt) ==
    IF i > Len(subscriptions)
    THEN [map |-> m, handles |-> hs, called |-> called, err |-> FALSE]
    ELSE LET sub == subscriptions[i]
             topic == SubscriptionTopic(Namespace, sub)
         IN  IF sub = ""
             THEN subscribeFrom(subscriptions, i + 1, m, hs, called, failAt)
             ELSE IF topic \in DOMAIN m
             THEN subscribeFrom(subscriptions, i + 1, m, hs, called, failAt)
             ELSE IF i = failAt
             THEN [map |-> m, handles |-> hs, called |-> called \cup {sub}, err |-> TRUE]
             ELSE subscribeFrom(subscriptions, i + 1,
                                MapPut(m, topic, Len(hs) + 1),
                                Append(hs, NewHandle(topic)),
                                called \cup {sub}, failAt)

subscribe(subscriptions, m, hs, failAt) ==
    subscribeFrom(subscriptions, 1, m, hs, {}, failAt)

\* the indices at which a bus.Subscribe of subscribe(subscriptions) may fail
\* (0: none fails)
FailAts(subscriptions) == IF MayFail THEN 0..Len(subscriptions) ELSE {0}

\* unsubscribe(subscriptions) from index i on; Cancel fails for the names in failing
RECURSIVE unsubscribeFrom(_, _, _, _, _, _)
unsubscribeFrom(subscriptions, i, m, hs, called, failing) ==
    IF i > Len(subscriptions)
    THEN [map |-> m, handles |-> hs, called |-> called]
    ELSE LET subscriptionName == subscriptions[i]
             topic == SubscriptionTopic(Namespace, subscriptionName)
         IN  IF topic \in DOMAIN m
             THEN IF subscriptionName \in failing
                  THEN unsubscribeFrom(subscriptions, i + 1, m,
                                       Cancel(hs, m[topic], TRUE),
                                       called \cup {subscriptionName}, failing)
                  ELSE unsubscribeFrom(subscriptions, i + 1, MapDelete(m, topic),
                                       Cancel(hs, m[topic], FALSE),
                                       called \cup {subscriptionName}, failing)
             ELSE unsubscribeFrom(subscriptions, i + 1, m, hs, called, failing)

unsubscribe(subscriptions, m, hs, failing) ==
    unsubscribeFrom(subscriptions, 1, m, hs, {}, failing)

\* the subscription names whose topic is a key of the map
MapNames(m) == {n \in Names : SubscriptionTopic(Namespace, n) \in DOMAIN m}

\* the sets of names whose Cancel may fail in unsubscribe(subscriptions): names
\* that are subscribed, as many as the run may still have failures
Failings(subscriptions, m) ==
    {f \in SUBSET (Range(subscriptions) \cap MapNames(m)) :
        Cardinality(f) <= MaxFaults - nFaults}

(* ------------------------------------------------------------------ *)
(* NewSession and Session.Start                                        *)
(* ------------------------------------------------------------------ *)
\* ringv2.Path(namespace, sub)
RingPath(ns, sub) == <<"ring", ns, sub>>

\* what a ring.Remove under its one-second context can do: succeed, fail, or
\* fail with the context expired
RemoveResults == {"ok", "err", "expired"}

\* lines 741-759 from index i on: the ring.Remove calls of unsubscribe;
\* outcomes[i] is what the Remove for subscriptions[i] does
RECURSIVE ringRemoveFrom(_, _, _, _)
ringRemoveFrom(subscriptions, i, outcomes, calls) ==
    IF i > Len(subscriptions)
    THEN calls
    ELSE LET sub == subscriptions[i]
             call == [ring |-> RingPath(Namespace, sub), member |-> AgentName]
         IN  IF HasPrefix(sub, "entity:")
             THEN ringRemoveFrom(subscriptions, i + 1, outcomes, calls)
             ELSE IF outcomes[i] = "expired"
             THEN Append(calls, call)
             ELSE ringRemoveFrom(subscriptions, i + 1, outcomes, Append(calls, call))

\* a loop that removes the agent from the ring of every name of the list,
\* whatever the flag says and whatever a Remove returns
ringRemoveAll(subscriptions, pool, dereg, outcomes) ==
    IF pool
    THEN [i \in 1..Len(subscriptions) |->
             [ring |-> RingPath(Namespace, subscriptions[i]), member |-> AgentName]]
    ELSE <<>>

\* lines 728-760: the ring removals at the end of unsubscribe(subscriptions)
ringRemovals(subscriptions, pool, dereg, outcomes) ==
    IF ~pool
    THEN <<>>
    ELSE IF ~dereg
    THEN <<>>
    ELSE ringRemoveFrom(subscriptions, 1, outcomes, <<>>)

\* the Remove calls of outcomes that do not succeed
FailedRemoves(outcomes) == Cardinality({i \in DOMAIN outcomes : outcomes[i] # "ok"})

\* what the Remove calls of unsubscribe(subscriptions) may do when at most
\* budget of them fail: one result for each call the loop reaches
RemoveOutcomes(subscriptions, pool, dereg, budget) ==
    {o \in [1..Len(subscriptions) -> RemoveResults] :
        /\ FailedRemoves(o) <= budget
        /\ \A i \in 1..Len(subscriptions) :
              o[i] # "ok" =>
                /\ pool /\ dereg
                /\ ~HasPrefix(subscriptions[i], "entity:")
                /\ \A j \in 1..(i - 1) : o[j] # "expired"}

\* line 29
deletedEventSentinel == -1

\* messaging.TopicKeepalive
TopicKeepalive == "keepalive"

\* corev2.KeepaliveCheckName
KeepaliveCheckName == "keepalive"

\* a keepalive event that carries the time of the connection
makeEntityKeepaliveEvent(namespace, agentName, subscriptions) ==
    [namespace |-> namespace,
     entity |-> [namespace |-> namespace, name |-> agentName,
                 subs |-> subscriptions, class |-> EntityAgentClass],
     check |-> [namespace |-> namespace, name |-> KeepaliveCheckName],
     timestamp |-> 0]

\* lines 209-230: the event that buries the entity's switch in keepalived
makeEntitySwitchBurialEvent(namespace, agentName, subscriptions) ==
    [namespace |-> namespace,
     entity |-> [namespace |-> namespace, name |-> agentName,
                 subs |-> subscriptions, class |-> EntityAgentClass],
     check |-> [namespace |-> namespace, name |-> KeepaliveCheckName],
     timestamp |-> deletedEventSentinel]

\* lines 171-201, NewSession: publish the switch-burial event; an error ends
\* construction
NewSession ==
    /\ pcStart = "new"
    /\ \E publishOK \in Outcomes :
         /\ nFaults' = Counted(publishOK)
         /\ burial' =
              (IF publishOK
               THEN Append(burial,
                           [topic |-> TopicKeepalive,
                            event |-> makeEntitySwitchBurialEvent(Namespace, AgentName,
                                                                  agentSubs)])
               ELSE burial)
         /\ pcStart' = (IF publishOK THEN "ready" ELSE "ctorFailed")
    /\ UNCHANGED << startResult, startSubs, lookup, storedEntityConfig, published,
                    agentSubs, pcSender, senderEvent, added, removed, msg, senderExit,
                    rec, pcRecv, recvExit, fatal, pcStop, stopSubs, stopLog, stopCall,
                    ctxDone, cfgSubs, subscriptionsMap, deregister, slot, slotClosed,
                    updatesChannel, updatesClosed, checkChannel, checkClosed, handles,
                    connClosed, closeCalls, storeWrites, gauge, wg, stopWG, ringPool,
                    ringRemoves, nWatch, pcFn, argOld, argNew, fnResult >>

\* Start, lines 444-454: count the session and launch the three goroutines
StartBegin ==
    /\ pcStart = "ready"
    /\ pcStart' = "ecSubscribe"
    /\ gauge' = Inc(gauge)
    /\ wg' = 2
    /\ stopWG' = stopWG + 1
    /\ pcSender' = "select"
    /\ pcRecv' = "loop"
    /\ pcStop' = "wait"
    /\ UNCHANGED << startResult, startSubs, lookup, storedEntityConfig, published,
                    agentSubs, senderEvent, added, removed, msg, senderExit, rec,
                    recvExit, fatal, stopSubs, stopLog, stopCall, ctxDone, cfgSubs,
                    subscriptionsMap, deregister, slot, slotClosed, updatesChannel,
                    updatesClosed, checkChannel, checkClosed, handles, connClosed,
                    closeCalls, storeWrites, burial, ringPool, ringRemoves, nWatch,
                    nFaults, pcFn, argOld, argNew, fnResult >>

\* a return of Start that leaves the slot open
StartReturnsSlotOpen(result) ==
    /\ pcStart' = "returned"
    /\ startResult' = result
    /\ slotClosed' = slotClosed

\* a return of Start: the deferred close(s.entityConfig.subscriptions)
StartReturns(result) ==
    /\ pcStart' = "returned"
    /\ startResult' = result
    /\ slotClosed' = TRUE

\* Start, lines 467-479: subscribe to the entity-config topic, keep the handle
StartSubscribeEntityConfig ==
    /\ pcStart = "ecSubscribe"
    /\ Len(slot) < slotCap
    /\ \E subscribeOK \in Outcomes :
         /\ nFaults' = Counted(subscribeOK)
         /\ IF subscribeOK
            THEN /\ handles' = Append(handles,
                                      NewHandle(EntityConfigTopic(Namespace, AgentName)))
                 /\ slot' = Append(slot, Len(handles) + 1)
                 /\ pcStart' = "get"
                 /\ UNCHANGED << startResult, slotClosed >>
            ELSE /\ StartReturns("err")
                 /\ UNCHANGED << handles, slot >>
    /\ UNCHANGED << startSubs, lookup, storedEntityConfig, published, agentSubs, pcSender,
                    senderEvent, added, removed, msg, senderExit, rec, pcRecv, recvExit,
                    fatal, pcStop, stopSubs, stopLog, stopCall, ctxDone, cfgSubs,
                    subscriptionsMap, deregister, updatesChannel, updatesClosed,
                    checkChannel, checkClosed, connClosed, closeCalls, storeWrites, gauge,
                    wg, stopWG, burial, ringPool, ringRemoves, nWatch, pcFn, argOld,
                    argNew, fnResult >>

\* the placeholder entity of lines 493-500
PlaceholderEvent ==
    [action |-> "Create", hasEntity |-> TRUE,
     entity |-> [name |-> EntityNotFound, class |-> EntityAgentClass, subs |-> <<>>,
                 managedBy |-> "", deregister |-> FALSE]]

\* the stored entity published with its labels as they are
KeepManagedBy(entity) == entity

\* lines 521-523: drop the managed_by label when its value is sensu-agent
StripManagedBy(entity) ==
    IF entity.managedBy = ManagedBySensuAgent
    THEN [entity EXCEPT !.managedBy = ""]
    ELSE entity

\* lines 501-505 and 531-535: publish the watch event, return on an error
StartPublishes(event, publishOK, next) ==
    IF publishOK
    THEN /\ published' = Append(published, event)
         /\ updatesChannel' = Deliver(updatesChannel, event)
         /\ pcStart' = next
         /\ UNCHANGED << startResult, slotClosed >>
    ELSE /\ StartReturns("err")
         /\ UNCHANGED << published, updatesChannel >>

\* Start, lines 481-535: look the entity config up and publish the watch event
StartGet ==
    /\ pcStart = "get"
    /\ Len(updatesChannel) < updatesChannelCap
    /\ \/ \* Get fails with an error other than NotFound, or the unwrapping fails
          /\ MayFail
          /\ nFaults' = nFaults + 1
          /\ lookup' \in {"error", "unwrapError"}
          /\ StartReturns("err")
          /\ UNCHANGED << storedEntityConfig, published, updatesChannel >>
       \/ \* NotFound: publish the placeholder
          /\ lookup' = "notfound"
          /\ \E publishOK \in Outcomes :
               /\ nFaults' = Counted(publishOK)
               /\ StartPublishes(PlaceholderEvent, publishOK, "snapshot")
          /\ UNCHANGED storedEntityConfig
       \/ \* found: unwrap, strip the label, publish the stored entity
          /\ lookup' = "found"
          /\ \E stored \in StoredEntities, publishOK \in Outcomes :
               /\ nFaults' = Counted(publishOK)
               /\ storedEntityConfig' = StripManagedBy(stored)
               /\ StartPublishes([action |-> "Update", hasEntity |-> TRUE,
                                  entity |-> StripManagedBy(stored)],
                                 publishOK, "adopt")
    /\ UNCHANGED << startSubs, agentSubs, pcSender, senderEvent, added, removed, msg,
                    senderExit, rec, pcRecv, recvExit, fatal, pcStop, stopSubs, stopLog,
                    stopCall, ctxDone, cfgSubs, subscriptionsMap, deregister, slot,
                    updatesClosed, checkChannel, checkClosed, handles, connClosed,
                    closeCalls, storeWrites, gauge, wg, stopWG, burial, ringPool,
                    ringRemoves, nWatch, pcFn, argOld, argNew, fnResult >>

\* Start, lines 537-540: adopt the stored subscriptions
StartAdopt ==
    /\ pcStart = "adopt"
    /\ cfgSubs' = storedEntityConfig.subs
    /\ pcStart' = "snapshot"
    /\ UNCHANGED << startResult, startSubs, lookup, storedEntityConfig, published,
                    agentSubs, pcSender, senderEvent, added, removed, msg, senderExit,
                    rec, pcRecv, recvExit, fatal, pcStop, stopSubs, stopLog, stopCall,
                    ctxDone, subscriptionsMap, deregister, slot, slotClosed,
                    updatesChannel, updatesClosed, checkChannel, checkClosed, handles,
                    connClosed, closeCalls, storeWrites, gauge, wg, stopWG, burial,
                    ringPool, ringRemoves, nWatch, nFaults, pcFn, argOld, argNew, fnResult >>

\* Start, lines 543-546: copy the subscription list under the lock
StartSnapshot ==
    /\ pcStart = "snapshot"
    /\ startSubs' = cfgSubs
    /\ pcStart' = "subscribe"
    /\ UNCHANGED << startResult, lookup, storedEntityConfig, published, agentSubs,
                    pcSender, senderEvent, added, removed, msg, senderExit, rec, pcRecv,
                    recvExit, fatal, pcStop, stopSubs, stopLog, stopCall, ctxDone,
                    cfgSubs, subscriptionsMap, deregister, slot, slotClosed,
                    updatesChannel, updatesClosed, checkChannel, checkClosed, handles,
                    connClosed, closeCalls, storeWrites, gauge, wg, stopWG, burial,
                    ringPool, ringRemoves, nWatch, nFaults, pcFn, argOld, argNew, fnResult >>

\* Start, lines 548-553: subscribe to every copied subscription, then return
StartSubscribe ==
    /\ pcStart = "subscribe"
    /\ \E failAt \in FailAts(startSubs) :
         LET r == subscribe(startSubs, subscriptionsMap, handles, failAt)
         IN  /\ subscriptionsMap' = r.map
             /\ handles' = r.handles
             /\ nFaults' = Counted(~r.err)
             /\ StartReturns(IF r.err THEN "err" ELSE "ok")
    /\ UNCHANGED << startSubs, lookup, storedEntityConfig, published, agentSubs, pcSender,
                    senderEvent, added, removed, msg, senderExit, rec, pcRecv, recvExit,
                    fatal, pcStop, stopSubs, stopLog, stopCall, ctxDone, cfgSubs,
                    deregister, slot, updatesChannel, updatesClosed, checkChannel,
                    checkClosed, connClosed, closeCalls, storeWrites, gauge, wg, stopWG,
                    burial, ringPool, ringRemoves, nWatch, pcFn, argOld, argNew, fnResult >>

(* ------------------------------------------------------------------ *)
(* Session.sender                                                      *)
(* ------------------------------------------------------------------ *)
\* the deferred s.wg.Done() of a returning sender
SenderReturns(why) ==
    /\ pcSender' = "done"
    /\ senderExit' = why
    /\ wg' = wg - 1
    /\ senderEvent' = NoEvent
    /\ added' = <<>>
    /\ removed' = <<>>
    /\ msg' = NoMsg
    /\ rec' = NoRec

\* the sender goes back to its select
SenderContinues ==
    /\ pcSender' = "select"
    /\ senderEvent' = NoEvent
    /\ added' = <<>>
    /\ removed' = <<>>
    /\ msg' = NoMsg
    /\ rec' = NoRec
    /\ UNCHANGED << senderExit, wg >>

\* the entity written to the store with the class it came with
KeepClass(entity) == entity

\* line 336: the entity class is forced to agent
CoerceClass(entity) == [entity EXCEPT !.class = EntityAgentClass]

\* stop() has begun: the supervisor is past <-ctx.Done()
StopBegun == pcStop \notin {"idle", "wait"}

\* line 393: the frame built from the watch event's entity
EntityConfigMsg(event) == [type |-> "EntityConfig", managedBy |-> event.entity.managedBy]

\* lines 299-368: the entity-config case of the select, up to the marshalling
SenderSelectUpdates ==
    /\ pcSender = "select"
    /\ updatesChannel # <<>> \/ updatesClosed
    /\ IF updatesChannel = <<>>
       THEN /\ SenderReturns("updatesClosed")
            /\ UNCHANGED << updatesChannel, deregister, storeWrites, nFaults >>
       ELSE LET e == Head(updatesChannel)
            IN  /\ updatesChannel' = Tail(updatesChannel)
                /\ IF e.action = "Delete"
                   THEN /\ SenderReturns("delete")
                        /\ UNCHANGED << deregister, storeWrites, nFaults >>
                   ELSE IF e.action = "Unknown" \/ ~e.hasEntity
                   THEN /\ SenderContinues
                        /\ UNCHANGED << deregister, storeWrites, nFaults >>
                   ELSE IF e.entity.class # EntityAgentClass
                   THEN /\ \E wrapOK \in Outcomes, storeOK \in Outcomes :
                             /\ wrapOK \/ storeOK
                             /\ nFaults' = Counted(wrapOK /\ storeOK)
                             /\ storeWrites' =
                                  IF wrapOK
                                  THEN Append(storeWrites, CoerceClass(e.entity))
                                  ELSE storeWrites
                        /\ SenderContinues
                        /\ UNCHANGED deregister
                   ELSE /\ deregister' = e.entity.deregister
                        /\ \E marshalOK \in Outcomes :
                             /\ nFaults' = Counted(marshalOK)
                             /\ IF marshalOK
                                THEN /\ pcSender' = "lock"
                                     /\ senderEvent' = e
                                     /\ UNCHANGED << senderExit, wg, added, removed,
                                                     msg, rec >>
                                ELSE SenderContinues
                        /\ UNCHANGED storeWrites
    /\ UNCHANGED << pcStart, startResult, startSubs, lookup, storedEntityConfig,
                    published, agentSubs, pcRecv, recvExit, fatal, pcStop, stopSubs,
                    stopLog, stopCall, ctxDone, cfgSubs, subscriptionsMap, slot,
                    slotClosed, updatesClosed, checkChannel, checkClosed, handles,
                    connClosed, closeCalls, gauge, stopWG, burial, ringPool, ringRemoves,
                    nWatch, pcFn, argOld, argNew, fnResult >>

\* where the sender goes once the lists of line 375 are known (lines 378-393)
AfterDiff(a, r) ==
    IF Len(a) > 0 THEN "subscribe" ELSE IF Len(r) > 0 THEN "unsubscribe" ELSE "send"

\* lines 372-377: sort both lists, diff them and store the new list, under s.mu
SenderReconcile ==
    /\ pcSender = "lock"
    /\ LET oldSubscriptions == sortSubscriptions(cfgSubs)
           newSubscriptions == sortSubscriptions(senderEvent.entity.subs)
           d == diff(oldSubscriptions, newSubscriptions)
       IN  /\ cfgSubs' = newSubscriptions
           /\ added' = d.added
           /\ removed' = d.removed
           /\ pcSender' = AfterDiff(d.added, d.removed)
           /\ msg' = IF AfterDiff(d.added, d.removed) = "send"
                     THEN EntityConfigMsg(senderEvent) ELSE NoMsg
           /\ rec' = [old |-> cfgSubs, new |-> senderEvent.entity.subs,
                      preKeys |-> MapNames(subscriptionsMap),
                      subscribed |-> {}, cancelled |-> {}, ok |-> TRUE,
                      quiet |-> pcStart = "returned" /\ ~StopBegun]
    /\ UNCHANGED << pcStart, startResult, startSubs, lookup, storedEntityConfig,
                    published, agentSubs, senderEvent, senderExit, pcRecv, recvExit,
                    fatal, pcStop, stopSubs, stopLog, stopCall, ctxDone, subscriptionsMap,
                    deregister, slot, slotClosed, updatesChannel, updatesClosed,
                    checkChannel, checkClosed, handles, connClosed, closeCalls,
                    storeWrites, gauge, wg, stopWG, burial, ringPool, ringRemoves, nWatch,
                    nFaults, pcFn, argOld, argNew, fnResult >>

\* lines 378-383: subscribe(added); its error is ignored
SenderSubscribe ==
    /\ pcSender = "subscribe"
    /\ \E failAt \in FailAts(added) :
         LET r == subscribe(added, subscriptionsMap, handles, failAt)
         IN  /\ subscriptionsMap' = r.map
             /\ handles' = r.handles
             /\ nFaults' = Counted(~r.err)
             /\ rec' = [rec EXCEPT !.subscribed = r.called,
                                   !.ok = @ /\ ~r.err,
                                   !.quiet = @ /\ ~StopBegun]
    /\ pcSender' = AfterDiff(<<>>, removed)
    /\ msg' = IF Len(removed) > 0 THEN NoMsg ELSE EntityConfigMsg(senderEvent)
    /\ UNCHANGED << pcStart, startResult, startSubs, lookup, storedEntityConfig,
                    published, agentSubs, senderEvent, added, removed, senderExit, pcRecv,
                    recvExit, fatal, pcStop, stopSubs, stopLog, stopCall, ctxDone,
                    cfgSubs, deregister, slot, slotClosed, updatesChannel, updatesClosed,
                    checkChannel, checkClosed, connClosed, closeCalls, storeWrites, gauge,
                    wg, stopWG, burial, ringPool, ringRemoves, nWatch, pcFn, argOld,
                    argNew, fnResult >>

\* lines 384-393: unsubscribe(removed), then build the EntityConfig frame
SenderUnsubscribe ==
    /\ pcSender = "unsubscribe"
    /\ \E failing \in Failings(removed, subscriptionsMap) :
         LET r == unsubscribe(removed, subscriptionsMap, handles, failing)
         IN  /\ subscriptionsMap' = r.map
             /\ handles' = r.handles
             /\ \E outcomes \in RemoveOutcomes(removed, ringPool, deregister,
                                               MaxFaults - nFaults - Cardinality(failing)) :
                  /\ ringRemoves' = ringRemoves \o
                       ringRemovals(removed, ringPool, deregister, outcomes)
                  /\ nFaults' = nFaults + Cardinality(failing) + FailedRemoves(outcomes)
             /\ rec' = [rec EXCEPT !.cancelled = r.called,
                                   !.ok = @ /\ failing = {},
                                   !.quiet = @ /\ ~StopBegun]
    /\ pcSender' = "send"
    /\ msg' = EntityConfigMsg(senderEvent)
    /\ UNCHANGED << pcStart, startResult, startSubs, lookup, storedEntityConfig,
                    published, agentSubs, senderEvent, added, removed, senderExit, pcRecv,
                    recvExit, fatal, pcStop, stopSubs, stopLog, stopCall, ctxDone,
                    cfgSubs, deregister, slot, slotClosed, updatesChannel, updatesClosed,
                    checkChannel, checkClosed, connClosed, closeCalls, storeWrites, gauge,
                    wg, stopWG, burial, ringPool, nWatch, pcFn, argOld, argNew, fnResult >>

\* lines 394-413: the check-channel case of the select
SenderSelectCheck ==
    /\ pcSender = "select"
    /\ checkChannel # <<>> \/ checkClosed
    /\ IF checkChannel = <<>>
       THEN /\ SenderReturns("checksClosed")
            /\ UNCHANGED << checkChannel, nFaults >>
       ELSE /\ checkChannel' = Tail(checkChannel)
            /\ \E marshalOK \in Outcomes :
                 /\ nFaults' = Counted(marshalOK)
                 /\ IF marshalOK
                    THEN /\ pcSender' = "send"
                         /\ msg' = [type |-> "CheckRequest", managedBy |-> ""]
                         /\ UNCHANGED << senderExit, wg, senderEvent, added, removed, rec >>
                    ELSE SenderContinues
    /\ UNCHANGED << pcStart, startResult, startSubs, lookup, storedEntityConfig,
                    published, agentSubs, pcRecv, recvExit, fatal, pcStop, stopSubs,
                    stopLog, stopCall, ctxDone, cfgSubs, subscriptionsMap, deregister,
                    slot, slotClosed, updatesChannel, updatesClosed, checkClosed, handles,
                    connClosed, closeCalls, storeWrites, gauge, stopWG, burial, ringPool,
                    ringRemoves, nWatch, pcFn, argOld, argNew, fnResult >>

\* lines 414-415: the ctx.Done() case of the select
SenderCtxDone ==
    /\ pcSender = "select"
    /\ ctxDone
    /\ SenderReturns("ctx")
    /\ UNCHANGED << pcStart, startResult, startSubs, lookup, storedEntityConfig,
                    published, agentSubs, pcRecv, recvExit, fatal, pcStop, stopSubs,
                    stopLog, stopCall, ctxDone, cfgSubs, subscriptionsMap, deregister,
                    slot, slotClosed, updatesChannel, updatesClosed, checkChannel,
                    checkClosed, handles, connClosed, closeCalls, storeWrites, gauge,
                    stopWG, burial, ringPool, ringRemoves, nWatch, nFaults, pcFn, argOld,
                    argNew, fnResult >>

\* lines 417-435: conn.Send(msg); any error ends the sender
SenderSend ==
    /\ pcSender = "send"
    /\ \E sendOK \in (IF connClosed THEN {FALSE} ELSE Outcomes) :
         /\ nFaults' = (IF connClosed THEN nFaults ELSE Counted(sendOK))
         /\ IF sendOK
            THEN SenderContinues
            ELSE SenderReturns(IF ctxDone THEN "ctx" ELSE "sendError")
    /\ UNCHANGED << pcStart, startResult, startSubs, lookup, storedEntityConfig,
                    published, agentSubs, pcRecv, recvExit, fatal, pcStop, stopSubs,
                    stopLog, stopCall, ctxDone, cfgSubs, subscriptionsMap, deregister,
                    slot, slotClosed, updatesChannel, updatesClosed, checkChannel,
                    checkClosed, handles, connClosed, closeCalls, storeWrites, gauge,
                    stopWG, burial, ringPool, ringRemoves, nWatch, pcFn, argOld, argNew,
                    fnResult >>

(* ------------------------------------------------------------------ *)
(* Session.receiver                                                    *)
(* ------------------------------------------------------------------ *)
\* the deferred s.wg.Done() of a returning receiver
ReceiverReturns(why) ==
    /\ pcRecv' = "done"
    /\ recvExit' = why
    /\ wg' = wg - 1

\* lines 243-246: the context check at the top of the loop
ReceiverLoop ==
    /\ pcRecv = "loop"
    /\ IF ctxDone
       THEN ReceiverReturns("ctx")
       ELSE /\ pcRecv' = "receive"
            /\ UNCHANGED << recvExit, wg >>
    /\ UNCHANGED << pcStart, startResult, startSubs, lookup, storedEntityConfig,
                    published, agentSubs, pcSender, senderEvent, added, removed, msg,
                    senderExit, rec, fatal, pcStop, stopSubs, stopLog, stopCall, ctxDone,
                    cfgSubs, subscriptionsMap, deregister, slot, slotClosed,
                    updatesChannel, updatesClosed, checkChannel, checkClosed, handles,
                    connClosed, closeCalls, storeWrites, gauge, stopWG, burial, ringPool,
                    ringRemoves, nWatch, nFaults, pcFn, argOld, argNew, fnResult >>

\* lines 247-251: conn.Receive fails because stop() has closed the transport
ReceiverClosed ==
    /\ pcRecv = "receive"
    /\ connClosed
    /\ ReceiverReturns(IF ctxDone THEN "ctx" ELSE "transportError")
    /\ UNCHANGED << pcStart, startResult, startSubs, lookup, storedEntityConfig,
                    published, agentSubs, pcSender, senderEvent, added, removed, msg,
                    senderExit, rec, fatal, pcStop, stopSubs, stopLog, stopCall, ctxDone,
                    cfgSubs, subscriptionsMap, deregister, slot, slotClosed,
                    updatesChannel, updatesClosed, checkChannel, checkClosed, handles,
                    connClosed, closeCalls, storeWrites, gauge, stopWG, burial, ringPool,
                    ringRemoves, nWatch, nFaults, pcFn, argOld, argNew, fnResult >>

\* lines 247-270: conn.Receive fails on an open transport (connection error,
\* or the agent closed the connection: peerClosed)
ReceiverError ==
    /\ pcRecv = "receive"
    /\ ~connClosed
    /\ MayFail
    /\ nFaults' = nFaults + 1
    /\ ReceiverReturns(IF ctxDone THEN "ctx" ELSE "transportError")
    /\ \E peerClosed \in BOOLEAN : connClosed' = peerClosed
    /\ UNCHANGED << pcStart, startResult, startSubs, lookup, storedEntityConfig,
                    published, agentSubs, pcSender, senderEvent, added, removed, msg,
                    senderExit, rec, fatal, pcStop, stopSubs, stopLog, stopCall, ctxDone,
                    cfgSubs, subscriptionsMap, deregister, slot, slotClosed,
                    updatesChannel, updatesClosed, checkChannel, checkClosed, handles,
                    closeCalls, storeWrites, gauge, stopWG, burial, ringPool, ringRemoves,
                    nWatch, pcFn, argOld, argNew, fnResult >>

\* line 283: `go s.Stop()`
StopCalled(call) == IF call = "none" THEN "waiting" ELSE call

\* what a handler can return, with the state of the derived context when it
\* does: "ok"; an error with the context live or expired (line 273); an
\* internal-store error with the context live, expired at line 273, or expired
\* only at line 279
HandlerResults ==
    IF MayFail
    THEN {"ok", "error", "errorExpired", "ErrInternal", "ErrInternalExpired",
          "ErrInternalExpiredLate"}
    ELSE {"ok"}

\* lines 247, 271-287: a frame arrives and is dispatched
ReceiverDispatch ==
    /\ pcRecv = "receive"
    /\ ~connClosed
    /\ \E result \in HandlerResults :
         /\ nFaults' = Counted(result = "ok")
         /\ IF result # "ok" /\ (ctxDone \/ result \in {"errorExpired", "ErrInternalExpired"})
            THEN /\ ReceiverReturns(IF ctxDone THEN "ctx"
                                 ELSE IF result = "errorExpired" THEN "handlerTimeout"
                                 ELSE "internalTimeout")
                 /\ UNCHANGED << fatal, stopCall >>
            ELSE /\ pcRecv' = "loop"
                 /\ UNCHANGED << recvExit, wg >>
                 /\ IF result = "ErrInternal"
                    THEN /\ fatal' = TRUE
                         /\ stopCall' = StopCalled(stopCall)
                    ELSE UNCHANGED << fatal, stopCall >>
    /\ UNCHANGED << pcStart, startResult, startSubs, lookup, storedEntityConfig,
                    published, agentSubs, pcSender, senderEvent, added, removed, msg,
                    senderExit, rec, pcStop, stopSubs, stopLog, ctxDone, cfgSubs,
                    subscriptionsMap, deregister, slot, slotClosed, updatesChannel,
                    updatesClosed, checkChannel, checkClosed, handles, connClosed,
                    closeCalls, storeWrites, gauge, stopWG, burial, ringPool, ringRemoves,
                    nWatch, pcFn, argOld, argNew, fnResult >>

(* ------------------------------------------------------------------ *)
(* The supervisor goroutine and Session.stop                           *)
(* ------------------------------------------------------------------ *)
\* lines 451-453: <-ctx.Done(), then s.stop()
SupervisorWakes ==
    /\ pcStop = "wait"
    /\ ctxDone
    /\ pcStop' = "closeMsg"
    /\ UNCHANGED << pcStart, startResult, startSubs, lookup, storedEntityConfig,
                    published, agentSubs, pcSender, senderEvent, added, removed, msg,
                    senderExit, rec, pcRecv, recvExit, fatal, stopSubs, stopLog, stopCall,
                    ctxDone, cfgSubs, subscriptionsMap, deregister, slot, slotClosed,
                    updatesChannel, updatesClosed, checkChannel, checkClosed, handles,
                    connClosed, closeCalls, storeWrites, gauge, wg, stopWG, burial,
                    ringPool, ringRemoves, nWatch, nFaults, pcFn, argOld, argNew, fnResult >>

\* a close frame whatever the state of the transport
CloseMessageAlways(closed) == <<"closeFrame">>

\* lines 574-579: the close frame is sent unless conn.Closed()
CloseMessage(closed) == IF closed THEN <<>> ELSE <<"closeFrame">>

\* lines 572-581: the close message unless the transport is closed, the gauge
StopCloseMessage ==
    /\ pcStop = "closeMsg"
    /\ stopLog' = stopLog \o CloseMessage(connClosed) \o <<"gaugeDec">>
    /\ gauge' = Dec(gauge)
    /\ pcStop' = "drain"
    /\ UNCHANGED << pcStart, startResult, startSubs, lookup, storedEntityConfig,
                    published, agentSubs, pcSender, senderEvent, added, removed, msg,
                    senderExit, rec, pcRecv, recvExit, fatal, stopSubs, stopCall, ctxDone,
                    cfgSubs, subscriptionsMap, deregister, slot, slotClosed,
                    updatesChannel, updatesClosed, checkChannel, checkClosed, handles,
                    connClosed, closeCalls, storeWrites, wg, stopWG, burial, ringPool,
                    ringRemoves, nWatch, nFaults, pcFn, argOld, argNew, fnResult >>

\* a range loop that ends as soon as the slot is empty
RangeEndsWhenEmpty == TRUE

\* line 584: the range loop over an empty slot ends when the slot is closed
RangeEnds == slotClosed

\* lines 583-588: range over the slot, cancelling what it holds, until Start
\* has closed it
StopDrain ==
    /\ pcStop = "drain"
    /\ slot # <<>> \/ RangeEnds
    /\ IF slot # <<>>
       THEN /\ \E cancelOK \in Outcomes :
                 /\ handles' = Cancel(handles, Head(slot), ~cancelOK)
                 /\ nFaults' = Counted(cancelOK)
            /\ slot' = Tail(slot)
            /\ stopLog' = Append(stopLog, "cancelEntityConfig")
            /\ UNCHANGED pcStop
       ELSE /\ pcStop' = "snapshot"
            /\ UNCHANGED << handles, nFaults, slot, stopLog >>
    /\ UNCHANGED << pcStart, startResult, startSubs, lookup, storedEntityConfig,
                    published, agentSubs, pcSender, senderEvent, added, removed, msg,
                    senderExit, rec, pcRecv, recvExit, fatal, stopSubs, stopCall, ctxDone,
                    cfgSubs, subscriptionsMap, deregister, slotClosed, updatesChannel,
                    updatesClosed, checkChannel, checkClosed, connClosed, closeCalls,
                    storeWrites, gauge, wg, stopWG, burial, ringPool, ringRemoves, nWatch,
                    pcFn, argOld, argNew, fnResult >>

\* lines 590-593: read the subscription list under the lock
StopSnapshot ==
    /\ pcStop = "snapshot"
    /\ stopSubs' = cfgSubs
    /\ pcStop' = "unsubscribe"
    /\ UNCHANGED << pcStart, startResult, startSubs, lookup, storedEntityConfig,
                    published, agentSubs, pcSender, senderEvent, added, removed, msg,
                    senderExit, rec, pcRecv, recvExit, fatal, stopLog, stopCall, ctxDone,
                    cfgSubs, subscriptionsMap, deregister, slot, slotClosed,
                    updatesChannel, updatesClosed, checkChannel, checkClosed, handles,
                    connClosed, closeCalls, storeWrites, gauge, wg, stopWG, burial,
                    ringPool, ringRemoves, nWatch, nFaults, pcFn, argOld, argNew, fnResult >>

\* line 594: unsubscribe(subs)
StopUnsubscribe ==
    /\ pcStop = "unsubscribe"
    /\ \E failing \in Failings(stopSubs, subscriptionsMap) :
         LET r == unsubscribe(stopSubs, subscriptionsMap, handles, failing)
         IN  /\ subscriptionsMap' = r.map
             /\ handles' = r.handles
             /\ \E outcomes \in RemoveOutcomes(stopSubs, ringPool, deregister,
                                               MaxFaults - nFaults - Cardinality(failing)) :
                  /\ ringRemoves' = ringRemoves \o
                       ringRemovals(stopSubs, ringPool, deregister, outcomes)
                  /\ nFaults' = nFaults + Cardinality(failing) + FailedRemoves(outcomes)
    /\ stopLog' = Append(stopLog, "unsubscribe")
    /\ pcStop' = "closeChannels"
    /\ UNCHANGED << pcStart, startResult, startSubs, lookup, storedEntityConfig,
                    published, agentSubs, pcSender, senderEvent, added, removed, msg,
                    senderExit, rec, pcRecv, recvExit, fatal, stopSubs, stopCall, ctxDone,
                    cfgSubs, deregister, slot, slotClosed, updatesChannel, updatesClosed,
                    checkChannel, checkClosed, connClosed, closeCalls, storeWrites, gauge,
                    wg, stopWG, burial, ringPool, nWatch, pcFn, argOld, argNew, fnResult >>

\* the two closes in the other order
ChannelClosesReversed == <<"closeChecks", "closeUpdates">>

\* lines 596-597: the entity-config updates channel is closed, then the check
\* channel
ChannelCloses == <<"closeUpdates", "closeChecks">>

\* lines 596-597: close both outbound channels
StopCloseChannels ==
    /\ pcStop = "closeChannels"
    /\ updatesClosed' = TRUE
    /\ checkClosed' = TRUE
    /\ stopLog' = stopLog \o ChannelCloses
    /\ pcStop' = "connClose"
    /\ UNCHANGED << pcStart, startResult, startSubs, lookup, storedEntityConfig,
                    published, agentSubs, pcSender, senderEvent, added, removed, msg,
                    senderExit, rec, pcRecv, recvExit, fatal, stopSubs, stopCall, ctxDone,
                    cfgSubs, subscriptionsMap, deregister, slot, slotClosed,
                    updatesChannel, checkChannel, handles, connClosed, closeCalls,
                    storeWrites, gauge, wg, stopWG, burial, ringPool, ringRemoves, nWatch,
                    nFaults, pcFn, argOld, argNew, fnResult >>

\* lines 564-570: the deferred conn.Close() and s.stopWG.Done()
StopConnClose ==
    /\ pcStop = "connClose"
    /\ connClosed' = TRUE
    /\ closeCalls' = closeCalls + 1
    /\ stopLog' = Append(stopLog, "connClose")
    /\ stopWG' = stopWG - 1
    /\ pcStop' = "done"
    /\ UNCHANGED << pcStart, startResult, startSubs, lookup, storedEntityConfig,
                    published, agentSubs, pcSender, senderEvent, added, removed, msg,
                    senderExit, rec, pcRecv, recvExit, fatal, stopSubs, stopCall, ctxDone,
                    cfgSubs, subscriptionsMap, deregister, slot, slotClosed,
                    updatesChannel, updatesClosed, checkChannel, checkClosed, handles,
                    storeWrites, gauge, wg, burial, ringPool, ringRemoves, nWatch,
                    nFaults, pcFn, argOld, argNew, fnResult >>

(* ------------------------------------------------------------------ *)
(* Session.Stop                                                        *)
(* ------------------------------------------------------------------ *)
\* Start has been called
Started == pcStart \notin {"new", "ctorFailed", "ready"}

\* lines 559-560: s.wg.Wait() and s.stopWG.Wait() are over and Stop returns,
\* to the goroutine of line 283 or to the session's owner, who calls it after
\* Start has returned; a call that still waits changes nothing
StopReturns ==
    /\ stopCall \in {"none", "waiting"}
    /\ pcStart = "returned"
    /\ wg = 0
    /\ stopWG = 0
    /\ stopCall' = "returned"
    /\ UNCHANGED << pcStart, startResult, startSubs, lookup, storedEntityConfig,
                    published, agentSubs, pcSender, senderEvent, added, removed, msg,
                    senderExit, rec, pcRecv, recvExit, fatal, pcStop, stopSubs, stopLog,
                    ctxDone, cfgSubs, subscriptionsMap, deregister, slot, slotClosed,
                    updatesChannel, updatesClosed, checkChannel, checkClosed, handles,
                    connClosed, closeCalls, storeWrites, gauge, wg, stopWG, burial,
                    ringPool, ringRemoves, nWatch, nFaults, pcFn, argOld, argNew, fnResult >>

(* ------------------------------------------------------------------ *)
(* The environment                                                     *)
(* ------------------------------------------------------------------ *)
\* the owner cancels the context given to Start
CancelContext ==
    /\ Started
    /\ ~ctxDone
    /\ ctxDone' = TRUE
    /\ UNCHANGED << pcStart, startResult, startSubs, lookup, storedEntityConfig,
                    published, agentSubs, pcSender, senderEvent, added, removed, msg,
                    senderExit, rec, pcRecv, recvExit, fatal, pcStop, stopSubs, stopLog,
                    stopCall, cfgSubs, subscriptionsMap, deregister, slot, slotClosed,
                    updatesChannel, updatesClosed, checkChannel, checkClosed, handles,
                    connClosed, closeCalls, storeWrites, gauge, wg, stopWG, burial,
                    ringPool, ringRemoves, nWatch, nFaults, pcFn, argOld, argNew, fnResult >>

\* another daemon publishes a watch event on the entity-config topic
PublishWatchEvent ==
    /\ EntityConfigSubscribed
    /\ ~updatesClosed
    /\ nWatch < MaxWatch
    /\ Len(updatesChannel) < updatesChannelCap
    /\ \E e \in WatchEvents : updatesChannel' = Append(updatesChannel, e)
    /\ nWatch' = nWatch + 1
    /\ UNCHANGED << pcStart, startResult, startSubs, lookup, storedEntityConfig,
                    published, agentSubs, pcSender, senderEvent, added, removed, msg,
                    senderExit, rec, pcRecv, recvExit, fatal, pcStop, stopSubs, stopLog,
                    stopCall, ctxDone, cfgSubs, subscriptionsMap, deregister, slot,
                    slotClosed, updatesClosed, checkChannel, checkClosed, handles,
                    connClosed, closeCalls, storeWrites, gauge, wg, stopWG, burial,
                    ringPool, ringRemoves, nFaults, pcFn, argOld, argNew, fnResult >>

\* a scheduler publishes a check request on one of the session's topics
PublishCheckRequest ==
    /\ CheckSubscribed
    /\ ~checkClosed
    /\ Len(checkChannel) < MaxChecks
    /\ Len(checkChannel) < checkChannelCap
    /\ checkChannel' = Append(checkChannel, "CheckRequest")
    /\ UNCHANGED << pcStart, startResult, startSubs, lookup, storedEntityConfig,
                    published, agentSubs, pcSender, senderEvent, added, removed, msg,
                    senderExit, rec, pcRecv, recvExit, fatal, pcStop, stopSubs, stopLog,
                    stopCall, ctxDone, cfgSubs, subscriptionsMap, deregister, slot,
                    slotClosed, updatesChannel, updatesClosed, checkClosed, handles,
                    connClosed, closeCalls, storeWrites, gauge, wg, stopWG, burial,
                    ringPool, ringRemoves, nWatch, nFaults, pcFn, argOld, argNew, fnResult >>

(* ------------------------------------------------------------------ *)
(* Specifications                                                      *)
(* ------------------------------------------------------------------ *)
Next ==
    \/ NewSession
    \/ StartBegin
    \/ StartSubscribeEntityConfig
    \/ StartGet
    \/ StartAdopt
    \/ StartSnapshot
    \/ StartSubscribe
    \/ SenderSelectUpdates
    \/ SenderReconcile
    \/ SenderSubscribe
    \/ SenderUnsubscribe
    \/ SenderSelectCheck
    \/ SenderCtxDone
    \/ SenderSend
    \/ ReceiverLoop
    \/ ReceiverClosed
    \/ ReceiverError
    \/ ReceiverDispatch
    \/ SupervisorWakes
    \/ StopCloseMessage
    \/ StopDrain
    \/ StopSnapshot
    \/ StopUnsubscribe
    \/ StopCloseChannels
    \/ StopConnClose
    \/ StopReturns
    \/ CancelContext
    \/ PublishWatchEvent
    \/ PublishCheckRequest

Spec == Init /\ [][Next]_vars

(* ------------------------------------------------------------------ *)
(* diff and sortSubscriptions on their own                             *)
(* ------------------------------------------------------------------ *)
\* every list of at most MaxLen names
Lists == UNION {[1..n -> Names] : n \in 0..MaxLen}

\* a caller holds two lists; no session runs
FnInit ==
    /\ SessionInit
    /\ ringPool = TRUE
    /\ pcFn = "args"
    /\ argOld \in Lists
    /\ argNew \in Lists
    /\ fnResult = NoResult

\* diff(argOld, argNew)
CallDiff ==
    /\ pcFn = "args"
    /\ LET d == diff(argOld, argNew)
       IN  fnResult' = [fnResult EXCEPT !.added = d.added, !.removed = d.removed]
    /\ pcFn' = "diff"
    /\ UNCHANGED << argOld, argNew >>
    /\ UNCHANGED sessionVars

\* sortSubscriptions(argOld)
CallSortSubscriptions ==
    /\ pcFn = "args"
    /\ fnResult' = [fnResult EXCEPT !.sorted = sortSubscriptions(argOld)]
    /\ pcFn' = "sort"
    /\ UNCHANGED << argOld, argNew >>
    /\ UNCHANGED sessionVars

\* sortSubscriptions of what sortSubscriptions returned
CallSortSubscriptionsAgain ==
    /\ pcFn = "sort"
    /\ fnResult' = [fnResult EXCEPT !.sortedAgain = sortSubscriptions(fnResult.sorted)]
    /\ pcFn' = "sortAgain"
    /\ UNCHANGED << argOld, argNew >>
    /\ UNCHANGED sessionVars

FnNext ==
    \/ CallDiff
    \/ CallSortSubscriptions
    \/ CallSortSubscriptionsAgain

FnSpec == FnInit /\ [][FnNext]_vars

(* ------------------------------------------------------------------ *)
(* The sender's reconciliations with the entity config published again *)
(* ------------------------------------------------------------------ *)
\* the watch events that carry the agent's entity config
EntityConfigUpdates ==
    {e \in WatchEvents :
        /\ e.action = "Update"
        /\ e.hasEntity
        /\ e.entity.class = EntityAgentClass
        /\ e.entity.managedBy # ManagedBySensuAgent}

\* the entity's watcher publishes the agent's entity config, and may publish
\* the same config once more than MaxWatch times
PublishEntityConfig ==
    /\ EntityConfigSubscribed
    /\ ~updatesClosed
    /\ nWatch < MaxWatch + 1
    /\ Len(updatesChannel) < updatesChannelCap
    /\ \E e \in EntityConfigUpdates : updatesChannel' = Append(updatesChannel, e)
    /\ nWatch' = nWatch + 1
    /\ UNCHANGED << pcStart, startResult, startSubs, lookup, storedEntityConfig,
                    published, agentSubs, pcSender, senderEvent, added, removed, msg,
                    senderExit, rec, pcRecv, recvExit, fatal, pcStop, stopSubs, stopLog,
                    stopCall, ctxDone, cfgSubs, subscriptionsMap, deregister, slot,
                    slotClosed, updatesClosed, checkChannel, checkClosed, handles,
                    connClosed, closeCalls, storeWrites, gauge, wg, stopWG, burial,
                    ringPool, ringRemoves, nFaults, pcFn, argOld, argNew, fnResult >>

\* the sender's steps once Start has returned
SenderAfterStart ==
    /\ pcStart = "returned"
    /\ \/ SenderSelectUpdates
       \/ SenderReconcile
       \/ SenderSubscribe
       \/ SenderUnsubscribe
       \/ SenderSend

\* the watcher's publications once Start has returned
WatcherAfterStart ==
    /\ pcStart = "returned"
    /\ PublishEntityConfig

\* the runs in which Start returns before the sender is scheduled, the context
\* stays live, no frame arrives and no check is scheduled
ReconcileNext ==
    \/ NewSession
    \/ StartBegin
    \/ StartSubscribeEntityConfig
    \/ StartGet
    \/ StartAdopt
    \/ StartSnapshot
    \/ StartSubscribe
    \/ SenderAfterStart
    \/ WatcherAfterStart

ReconcileSpec == Init /\ [][ReconcileNext]_vars


\* every goroutine that can take a step eventually takes one; the context is
\* cancelled, frames arrive, events are published and the transport fails
\* only if the environment chooses so
StartSteps ==
    \/ NewSession
    \/ StartBegin
    \/ StartSubscribeEntityConfig
    \/ StartGet
    \/ StartAdopt
    \/ StartSnapshot
    \/ StartSubscribe

SenderSteps ==
    \/ SenderSelectUpdates
    \/ SenderReconcile
    \/ SenderSubscribe
    \/ SenderUnsubscribe
    \/ SenderSelectCheck
    \/ SenderCtxDone
    \/ SenderSend

ReceiverSteps == ReceiverLoop \/ ReceiverClosed

StopSteps ==
    \/ SupervisorWakes
    \/ StopCloseMessage
    \/ StopDrain
    \/ StopSnapshot
    \/ StopUnsubscribe
    \/ StopCloseChannels
    \/ StopConnClose

FairSpec ==
    /\ Spec
    /\ WF_vars(StartSteps)
    /\ WF_vars(SenderSteps)
    /\ WF_vars(ReceiverSteps)
    /\ WF_vars(StopSteps)
    /\ WF_vars(StopReturns)

(* ------------------------------------------------------------------ *)
(* Properties                                                          *)
(* ------------------------------------------------------------------ *)
\* s is sorted and duplicate-free
StrictlySorted(s) == \A i \in 1..(Len(s) - 1) : Compare(s[i], s[i + 1]) < 0

\* the non-empty names of s
NonEmptyNames(s) == Range(s) \ {""}

\* s has no name twice
DuplicateFree(s) == \A i, j \in 1..Len(s) : s[i] = s[j] => i = j

\* C1: when Stop has returned, every subscription the bus handed out (on the
\* entity-config topic or on a check topic) has had Cancel called exactly once
\* (stated for the runs in which no call of a collaborator failed).
C1_EveryHandleCancelledOnce ==
    (stopCall = "returned" /\ nFaults = 0)
        => \A h \in 1..Len(handles) : handles[h].cancels = 1

\* C2: once stop() has begun, the sender calls conn.Send no more.
C2_NoSendAfterStopBegun ==
    [][StopBegun => ~SenderSend]_vars

\* C3: after the sender returned on a Delete watch event with the context
\* live, stop() eventually completes (subscriptions cancelled, close frame,
\* transport closed, gauge decremented) without the context being cancelled.
C3_DeleteDrivesStop ==
    (senderExit = "delete" /\ ~ctxDone) ~> (pcStop = "done" \/ ctxDone)

\* C4: once a handler has returned an internal-store error with the context
\* live, the receiver dispatches no further message, does not go back to
\* Receive, and the sender sends no further frame.
C4_InternalErrorIsFatal ==
    [][fatal => /\ ~ReceiverDispatch
                /\ ~(ReceiverLoop /\ pcRecv' = "receive")
                /\ ~SenderSend]_vars

\* C5: after Receive or Send failed with the context live, stop() eventually
\* completes and both loops have returned, without the context being cancelled.
C5_TransportErrorStopsSession ==
    ((recvExit = "transportError" \/ senderExit = "sendError") /\ ~ctxDone)
        ~> ((pcStop = "done" /\ pcRecv = "done" /\ pcSender = "done") \/ ctxDone)

\* C6: the sender gives no EntityConfig frame to conn.Send for a watch event
\* whose entity has managed_by = sensu-agent.
C6_NoEchoWhenManagedByAgent ==
    [][(msg.type = "EntityConfig" /\ msg.managedBy = ManagedBySensuAgent)
          => ~SenderSend]_vars

\* the sender has finished the reconciliation of a watch event whose list is
\* sorted, duplicate-free and without empty names; it began after Start had
\* returned, with the session subscribed to exactly the names of its
\* duplicate-free list; stop() has not begun and no bus call failed
C7_Step ==
    /\ pcSender = "send"
    /\ msg.type = "EntityConfig"
    /\ rec.quiet
    /\ ~StopBegun
    /\ rec.ok
    /\ StrictlySorted(rec.new)
    /\ "" \notin Range(rec.new)
    /\ DuplicateFree(removeEmptySubscriptions(rec.old))
    /\ rec.preKeys = NonEmptyNames(rec.old)

\* C7: after such a step the keys of the map are the topics of the new list,
\* the stored list is the new list, Subscribe was called exactly for the names
\* new in it and Cancel exactly for the names no longer in it.
C7_ReconciliationStep ==
    C7_Step =>
        /\ MapNames(subscriptionsMap) = Range(rec.new)
        /\ DOMAIN subscriptionsMap =
               {SubscriptionTopic(Namespace, n) : n \in Range(rec.new)}
        /\ cfgSubs = rec.new
        /\ rec.subscribed = Range(rec.new) \ NonEmptyNames(rec.old)
        /\ rec.cancelled = NonEmptyNames(rec.old) \ Range(rec.new)

\* a step of C7 from a sorted, duplicate-free list without empty names that
\* both subscribed and cancelled
C7_Witness ==
    /\ C7_Step
    /\ StrictlySorted(rec.old)
    /\ "" \notin Range(rec.old)
    /\ rec.subscribed # {}
    /\ rec.cancelled # {}

\* C8: between a successful return of Start and the beginning of stop(), when
\* the sender is not in a reconciliation, the names of the subscription list
\* are the names whose topics are keys of the map (stated for the runs in which
\* no call of a collaborator failed, and without regard to empty names).
C8_ListMatchesMap ==
    ( /\ pcStart = "returned"
      /\ startResult = "ok"
      /\ nFaults = 0
      /\ ~StopBegun
      /\ pcSender \notin {"lock", "subscribe", "unsubscribe"} )
        => NonEmptyNames(cfgSubs) = MapNames(subscriptionsMap)

\* C9: from construction on, the subscription list is sorted, duplicate-free
\* and without empty names.
C9_ListNormalised ==
    pcStart \notin {"new", "ctorFailed"}
        => StrictlySorted(cfgSubs) /\ "" \notin Range(cfgSubs)

\* C10: after a successful Start whose lookup returned NotFound, and as long
\* as no other watch event has been published and stop() has not begun, the
\* placeholder Create event has been published exactly once, Subscribe has
\* returned a handle for every non-empty name the agent reported, and the
\* session is subscribed to those names.
C10_NotFoundBootstrap ==
    ( /\ pcStart = "returned"
      /\ startResult = "ok"
      /\ lookup = "notfound"
      /\ nWatch = 0
      /\ ~StopBegun )
        => /\ published = <<PlaceholderEvent>>
           /\ \A n \in NonEmptyNames(agentSubs) :
                /\ \E h \in 1..Len(handles) :
                       handles[h].topic = SubscriptionTopic(Namespace, n)
                /\ n \in MapNames(subscriptionsMap)

(* ------------------------------------------------------------------ *)
(* The runs in which no collaborator call fails                        *)
(* ------------------------------------------------------------------ *)
\* a step A in which no call of a collaborator fails
NoFault(A) == A /\ nFaults' = nFaults

NoFaultNext ==
    \/ NoFault(NewSession)
    \/ NoFault(StartBegin)
    \/ NoFault(StartSubscribeEntityConfig)
    \/ NoFault(StartGet)
    \/ NoFault(StartAdopt)
    \/ NoFault(StartSnapshot)
    \/ NoFault(StartSubscribe)
    \/ NoFault(SenderSelectUpdates)
    \/ NoFault(SenderReconcile)
    \/ NoFault(SenderSubscribe)
    \/ NoFault(SenderUnsubscribe)
    \/ NoFault(SenderSelectCheck)
    \/ NoFault(SenderCtxDone)
    \/ NoFault(SenderSend)
    \/ NoFault(ReceiverLoop)
    \/ NoFault(ReceiverClosed)
    \/ NoFault(ReceiverDispatch)
    \/ NoFault(SupervisorWakes)
    \/ NoFault(StopCloseMessage)
    \/ NoFault(StopDrain)
    \/ NoFault(StopSnapshot)
    \/ NoFault(StopUnsubscribe)
    \/ NoFault(StopCloseChannels)
    \/ NoFault(StopConnClose)
    \/ NoFault(StopReturns)
    \/ NoFault(CancelContext)
    \/ NoFault(PublishWatchEvent)
    \/ NoFault(PublishCheckRequest)

\* the same fairness as FairSpec: every goroutine that can take a step
\* eventually takes one
NoFaultSpec ==
    /\ Init /\ [][NoFaultNext]_vars
    /\ WF_vars(StartSteps)
    /\ WF_vars(SenderSteps)
    /\ WF_vars(ReceiverSteps)
    /\ WF_vars(StopSteps)
    /\ WF_vars(StopReturns)


\* a successful Start whose lookup found the entity config, no other watch
\* event published, stop() not begun
C11_Case ==
    /\ pcStart = "returned"
    /\ startResult = "ok"
    /\ lookup = "found"
    /\ nWatch = 0
    /\ ~StopBegun

\* C11: after a successful Start that found a stored entity config, the one
\* event published is an Update carrying the stored entity without the label
\* managed_by = sensu-agent, the names of the subscription list are the stored
\* names, the map holds exactly the stored names' topics, and no subscription
\* on a topic of a name only the agent reported is active.
C11_FoundBootstrap ==
    C11_Case =>
        \E stored \in StoredEntities :
            /\ Len(published) = 1
            /\ published[1].action = "Update"
            /\ published[1].hasEntity
            /\ published[1].entity.managedBy # ManagedBySensuAgent
            /\ [published[1].entity EXCEPT !.managedBy = stored.managedBy] = stored
            /\ Range(cfgSubs) = Range(stored.subs)
            /\ MapNames(subscriptionsMap) = NonEmptyNames(stored.subs)
            /\ \A h \in 1..Len(handles) :
                   handles[h].active =>
                       \/ handles[h].topic = EntityConfigTopic(Namespace, AgentName)
                       \/ \E n \in NonEmptyNames(stored.subs) :
                              handles[h].topic = SubscriptionTopic(Namespace, n)

\* such a Start, the agent having reported a name the stored entity lacks and
\* the sender having handled the published event, no call having failed
C11_Witness ==
    /\ C11_Case
    /\ nFaults = 0
    /\ NonEmptyNames(agentSubs) \ Range(storedEntityConfig.subs) # {}
    /\ pcSender = "select"
    /\ updatesChannel = <<>>
    /\ DOMAIN subscriptionsMap # {}

\* C12: on sorted, duplicate-free lists A and B, diff returns added = B \ A
\* and removed = A \ B, each sorted, so that (A + added) - removed = B, added
\* is disjoint from A and removed from B.
C12_DiffOnSortedLists ==
    (pcFn = "diff" /\ StrictlySorted(argOld) /\ StrictlySorted(argNew)) =>
        LET A == Range(argOld)
            B == Range(argNew)
            add == Range(fnResult.added)
            rem == Range(fnResult.removed)
        IN  /\ (A \cup add) \ rem = B
            /\ add \cap A = {}
            /\ rem \cap B = {}
            /\ add = B \ A
            /\ rem = A \ B
            /\ StrictlySorted(fnResult.added)
            /\ StrictlySorted(fnResult.removed)

\* diff of two sorted lists, with names added, removed and kept
C12_Witness ==
    /\ pcFn = "diff"
    /\ StrictlySorted(argOld)
    /\ StrictlySorted(argNew)
    /\ fnResult.added # <<>>
    /\ fnResult.removed # <<>>
    /\ Range(argOld) \cap Range(argNew) # {}
    /\ Len(argNew) > Len(argOld)

\* how often x occurs in s
Count(x, s) == Cardinality({i \in 1..Len(s) : s[i] = x})

\* C13: what sortSubscriptions returns is in order, has no empty name and has
\* every non-empty name as often as its argument; sortSubscriptions of it is
\* the same list.
C13_SortSubscriptions ==
    (pcFn \in {"sort", "sortAgain"} =>
        /\ \A i \in 1..(Len(fnResult.sorted) - 1) :
               Compare(fnResult.sorted[i], fnResult.sorted[i + 1]) <= 0
        /\ "" \notin Range(fnResult.sorted)
        /\ \A n \in Names \ {""} : Count(n, fnResult.sorted) = Count(n, argOld))
    /\ (pcFn = "sortAgain" => fnResult.sortedAgain = fnResult.sorted)

\* sortSubscriptions applied twice to an unordered list with an empty name and
\* a name twice
C13_Witness ==
    /\ pcFn = "sortAgain"
    /\ "" \in Range(argOld)
    /\ ~StringsAreSorted(argOld)
    /\ \E n \in Names \ {""} : Count(n, argOld) = 2

\* C14: the gauge is one from Start's increment to stop()'s decrement and zero
\* otherwise; when Stop has returned after a Start, successful or failed, it
\* is back at the value it had before that Start.
C14_GaugeRestored ==
    /\ gauge = (IF Started /\ "gaugeDec" \notin Range(stopLog) THEN 1 ELSE 0)
    /\ stopCall = "returned" => gauge = 0

\* Stop has returned after a Start that failed
C14_Witness ==
    /\ stopCall = "returned"
    /\ startResult = "err"
    /\ "gaugeDec" \in Range(stopLog)

\* C15: stop() performs each of its steps at most once; when it has completed,
\* conn.Close has been called exactly once and both channels have been closed
\* exactly once, the entity-config updates channel before the check channel.
C15_StopRunsOnce ==
    /\ \A step \in Range(stopLog) : Count(step, stopLog) = 1
    /\ pcStop = "done" =>
           /\ closeCalls = 1
           /\ Count("connClose", stopLog) = 1
           /\ updatesClosed
           /\ checkClosed
           /\ \E i, j \in 1..Len(stopLog) :
                  /\ i < j
                  /\ stopLog[i] = "closeUpdates"
                  /\ stopLog[j] = "closeChecks"

\* stop() has completed in a run without failures
C15_Witness ==
    /\ pcStop = "done"
    /\ nFaults = 0
    /\ connClosed

\* the sender is about to dequeue a Create/Update watch event whose entity is
\* present and has a class other than agent
NonAgentAtHead ==
    /\ pcSender = "select"
    /\ updatesChannel # <<>>
    /\ Head(updatesChannel).action \notin {"Delete", "Unknown"}
    /\ Head(updatesChannel).hasEntity
    /\ Head(updatesChannel).entity.class # EntityAgentClass

\* what the handling of such an event leaves alone: no frame is built, the
\* sender is back at its select, list, map and deregister flag are as before
NonAgentFrame ==
    /\ pcSender' = "select"
    /\ msg' = NoMsg
    /\ senderExit' = senderExit
    /\ cfgSubs' = cfgSubs
    /\ subscriptionsMap' = subscriptionsMap
    /\ deregister' = deregister

\* C16 as stated: handling such an event always calls CreateOrUpdate with the
\* entity, its class set to agent, sends nothing and changes neither list, map
\* nor deregister flag.
C16_AlwaysWritesStore ==
    [][(NonAgentAtHead /\ SenderSelectUpdates) =>
          /\ storeWrites' =
                 Append(storeWrites,
                        [Head(updatesChannel).entity EXCEPT !.class = EntityAgentClass])
          /\ NonAgentFrame]_vars

\* C16 amended: CreateOrUpdate is called with the coerced entity unless the
\* wrapping of the entity failed, in which case the store is not called; in
\* both cases nothing is sent, nothing else changes and the sender goes on.
C16_WritesStoreUnlessWrapFails ==
    [][(NonAgentAtHead /\ SenderSelectUpdates) =>
          /\ \/ storeWrites' =
                    Append(storeWrites,
                           [Head(updatesChannel).entity EXCEPT !.class = EntityAgentClass])
             \/ /\ storeWrites' = storeWrites
                /\ nFaults' = nFaults + 1
          /\ NonAgentFrame]_vars

\* the sender has handled such an event after a successful Start
C16_Witness ==
    /\ storeWrites # <<>>
    /\ storeWrites[1].class = EntityAgentClass
    /\ storeWrites[1].subs = <<"a">>
    /\ startResult = "ok"
    /\ pcSender = "select"
    /\ senderExit = "none"
    /\ pcStart = "returned"
    /\ ~ctxDone

\* C18: the receiver never returns because of a handler error other than an
\* internal-store error while the session context is live.
C18_HandlerErrorKeepsReceiver ==
    recvExit # "handlerTimeout"

\* the sender has completed, without a failing bus call, the reconciliation
\* of a watch event that carries the list the session already stored; Start
\* had returned successfully before it began
C17_SameListAgain ==
    /\ pcSender = "send"
    /\ msg.type = "EntityConfig"
    /\ rec.quiet
    /\ rec.ok
    /\ startResult = "ok"
    /\ NonEmptyNames(rec.new) # {}
    /\ sortSubscriptions(rec.old) = sortSubscriptions(rec.new)

\* C17: when a later watch event carries the same list again and no Subscribe
\* fails, the session is subscribed to every topic of the list afterwards.
C17_NextReconciliationRetries ==
    C17_SameListAgain => NonEmptyNames(rec.new) \subseteq MapNames(subscriptionsMap)

\* C19: a call of Stop on a running session eventually returns even if nobody
\* cancels the context.
C19_StopShutsSessionDown ==
    (stopCall = "waiting" /\ ~ctxDone) ~> (stopCall = "returned" \/ ctxDone)

RingInit ==
    /\ SessionInit
    /\ ringPool \in BOOLEAN
    /\ pcFn = "ring"
    /\ argOld \in Lists
    /\ argNew \in [1..Len(argOld) -> RemoveResults]
    /\ fnResult = NoResult

\* line 362: the sender writes the flag from an entity config
WriteDeregister ==
    /\ pcFn = "ring"
    /\ \E d \in BOOLEAN : deregister' = d
    /\ pcFn' = "ringCall"
    /\ UNCHANGED << pcStart, startResult, startSubs, lookup, storedEntityConfig,
                    published, agentSubs, pcSender, senderEvent, added, removed, msg,
                    senderExit, rec, pcRecv, recvExit, fatal, pcStop, stopSubs, stopLog,
                    stopCall, ctxDone, cfgSubs, subscriptionsMap, slot, slotClosed,
                    updatesChannel, updatesClosed, checkChannel, checkClosed, handles,
                    connClosed, closeCalls, storeWrites, gauge, wg, stopWG, burial,
                    ringPool, ringRemoves, nWatch, nFaults, argOld, argNew, fnResult >>

\* lines 699-760: unsubscribe(argOld)
CallUnsubscribe ==
    /\ pcFn = "ringCall"
    /\ LET r == unsubscribe(argOld, subscriptionsMap, handles, {})
       IN  /\ subscriptionsMap' = r.map
           /\ handles' = r.handles
    /\ ringRemoves' = ringRemoves \o ringRemovals(argOld, ringPool, deregister, argNew)
    /\ pcFn' = "ringDone"
    /\ UNCHANGED << pcStart, startResult, startSubs, lookup, storedEntityConfig,
                    published, agentSubs, pcSender, senderEvent, added, removed, msg,
                    senderExit, rec, pcRecv, recvExit, fatal, pcStop, stopSubs, stopLog,
                    stopCall, ctxDone, cfgSubs, deregister, slot, slotClosed,
                    updatesChannel, updatesClosed, checkChannel, checkClosed, connClosed,
                    closeCalls, storeWrites, gauge, wg, stopWG, burial, ringPool, nWatch,
                    nFaults, argOld, argNew, fnResult >>

RingNext ==
    \/ WriteDeregister
    \/ CallUnsubscribe

RingSpec == RingInit /\ [][RingNext]_vars

(* ------------------------------------------------------------------ *)
(* The session left to itself: no other daemon publishes on its topics *)
(* ------------------------------------------------------------------ *)
QuietNext ==
    \/ NewSession
    \/ StartBegin
    \/ StartSubscribeEntityConfig
    \/ StartGet
    \/ StartAdopt
    \/ StartSnapshot
    \/ StartSubscribe
    \/ SenderSelectUpdates
    \/ SenderReconcile
    \/ SenderSubscribe
    \/ SenderUnsubscribe
    \/ SenderCtxDone
    \/ SenderSend
    \/ ReceiverLoop
    \/ ReceiverClosed
    \/ ReceiverError
    \/ ReceiverDispatch
    \/ SupervisorWakes
    \/ StopCloseMessage
    \/ StopDrain
    \/ StopSnapshot
    \/ StopUnsubscribe
    \/ StopCloseChannels
    \/ StopConnClose
    \/ StopReturns
    \/ CancelContext

\* every goroutine that can take a step eventually takes one
QuietSpec ==
    /\ Init /\ [][QuietNext]_vars
    /\ WF_vars(StartSteps)
    /\ WF_vars(SenderSteps)
    /\ WF_vars(ReceiverSteps)
    /\ WF_vars(StopSteps)
    /\ WF_vars(StopReturns)

(* ------------------------------------------------------------------ *)
(* Construction, the order of stop(), the ring removals, the closes    *)
(* ------------------------------------------------------------------ *)
\* the keepalive topic has received the switch-burial event of this agent,
\* and nothing else from NewSession
SwitchBurialPublished ==
    /\ Len(burial) = 1
    /\ burial[1].topic = "keepalive"
    /\ burial[1].event.timestamp = -1
    /\ burial[1].event.check.name = "keepalive"
    /\ burial[1].event.entity.class = "agent"
    /\ burial[1].event.entity.namespace = Namespace
    /\ burial[1].event.entity.name = AgentName

\* the session has left no trace on the bus, the gauge, the store or the
\* transport
NoSessionEffect ==
    /\ gauge = 0
    /\ handles = <<>>
    /\ published = <<>>
    /\ storeWrites = <<>>
    /\ ringRemoves = <<>>
    /\ stopLog = <<>>
    /\ closeCalls = 0
    /\ pcSender = "idle" /\ pcRecv = "idle" /\ pcStop = "idle"

\* C21: NewSession publishes exactly one switch-burial event (timestamp -1,
\* the keepalive check name, class agent, the agent's namespace and name) on
\* the keepalive topic. Until it has done so the session has had no effect,
\* so the publish precedes every frame of the sender, every bus subscription
\* and every change of the gauge; when the publish fails there is no session
\* and none of these effects ever happens.
C21_BurialBeforeEverything ==
    /\ [](pcStart = "new" => burial = <<>> /\ NoSessionEffect)
    /\ [](pcStart = "ctorFailed" => burial = <<>> /\ NoSessionEffect)
    /\ [](pcStart \notin {"new", "ctorFailed"} => SwitchBurialPublished)
    /\ [][(SenderSend \/ gauge' # gauge \/ handles' # handles)
             => SwitchBurialPublished /\ burial' = burial]_vars

\* the sender is about to emit a frame of a session that has subscribed and
\* counted itself, after the one switch-burial publish
C21_Witness ==
    /\ SwitchBurialPublished
    /\ pcSender = "send"
    /\ gauge = 1
    /\ DOMAIN subscriptionsMap # {}

\* the steps of stop() in the order of its text, the deferred conn.Close last
StopOrder ==
    << "closeFrame", "gaugeDec", "cancelEntityConfig", "unsubscribe",
       "closeUpdates", "closeChecks", "connClose" >>

\* the place of a step in StopOrder
StopRank(step) == CHOOSE i \in 1..Len(StopOrder) : StopOrder[i] = step

\* the steps stop() takes whatever the state of the session
StopAlways == {"gaugeDec", "unsubscribe", "closeUpdates", "closeChecks", "connClose"}

\* C22 as stated: closing the transport is the first step of stop() after the
\* close frame, so conn.Close has been called before the gauge is decremented,
\* before any bus subscription is cancelled and before the channels are closed.
C22_TransportClosedFirst ==
    \A i \in 1..Len(stopLog) :
        stopLog[i] \in StopAlways \cup {"cancelEntityConfig"} =>
            \E j \in 1..i : stopLog[j] = "connClose"

\* C22, amended: stop() sends the close frame if and only if the transport is
\* not closed yet, then decrements the gauge, then cancels the entity-config
\* subscription when Start has stored one, then unsubscribes the check
\* subscriptions, then closes the updates channel and the check channel, and
\* only then, in its deferred function, closes the transport.
C22_StopOrderCloseLast ==
    /\ [](\A i, j \in 1..Len(stopLog) :
             i < j => StopRank(stopLog[i]) < StopRank(stopLog[j]))
    /\ [](pcStop = "done" => StopAlways \subseteq Range(stopLog))
    /\ [][StopCloseMessage =>
             /\ ("closeFrame" \in Range(stopLog')) = ~connClosed
             /\ "gaugeDec" \in Range(stopLog')]_vars
    /\ [][StopSnapshot =>
             ("cancelEntityConfig" \in Range(stopLog))
                = (\E h \in 1..Len(handles) :
                      handles[h].topic = EntityConfigTopic(Namespace, AgentName))]_vars

\* stop() has completed on a transport the peer had already closed, after
\* cancelling the entity-config subscription: no close frame, conn.Close last
C22_Witness ==
    /\ pcStop = "done"
    /\ "closeFrame" \notin Range(stopLog)
    /\ "cancelEntityConfig" \in Range(stopLog)
    /\ stopLog[Len(stopLog)] = "connClose"

\* stop()'s unsubscribe has read s.deregister (line 734: the ring pool is set)
StopHasReadDeregister ==
    ringPool /\ pcStop \in {"closeChannels", "connClose", "done"}

\* C23: unsubscribe in stop() reads the deregister flag after the sender's
\* last write of it: once stop() has read the flag, the sender does not
\* write it again.
C23_DeregisterReadAfterLastWrite ==
    [][StopHasReadDeregister => deregister' = deregister]_vars

\* the entity subscriptions among the names of the model
EntitySubscriptions == {"entity:node-1"}

\* the names of list up to index k that are not entity subscriptions, in
\* the order of the list
RingNamesUpTo(list, k) ==
    SelectSeq(SubSeq(list, 1, k), LAMBDA n : n \notin EntitySubscriptions)

\* the index of the first name of list, not an entity subscription, whose
\* Remove fails with its context expired; the length of list if there is none
FirstExpired(list, results) ==
    LET expired == {i \in 1..Len(list) :
                       list[i] \notin EntitySubscriptions /\ results[i] = "expired"}
    IN  IF expired = {} THEN Len(list)
        ELSE CHOOSE i \in expired : \A j \in expired : i <= j

\* C24: unsubscribe calls ring.Remove for the agent only with a ring pool and
\* with the deregister flag set; then it calls it once for each name of its
\* list that does not start with "entity:", in the order of the list, up to
\* and including the first Remove that fails with its context expired; a
\* Remove that fails otherwise does not end the loop, and no Remove is ever
\* called on the ring of an entity subscription.
C24_RingRemovals ==
    pcFn = "ringDone" =>
        /\ (~ringPool \/ ~deregister) => ringRemoves = <<>>
        /\ \A i \in 1..Len(ringRemoves) :
              /\ ringRemoves[i].member = AgentName
              /\ ringRemoves[i].ring[3] \notin EntitySubscriptions
        /\ (ringPool /\ deregister) =>
              LET names == RingNamesUpTo(argOld, FirstExpired(argOld, argNew))
              IN  /\ Len(ringRemoves) = Len(names)
                  /\ \A i \in 1..Len(names) :
                        ringRemoves[i].ring = <<"ring", Namespace, names[i]>>

\* unsubscribe has skipped an entity subscription, gone on after a Remove
\* that failed and stopped at a Remove whose context expired, leaving a name
\* of the list without a Remove
C24_Witness ==
    /\ pcFn = "ringDone"
    /\ ringPool /\ deregister
    /\ argOld = <<"a", "entity:node-1", "b">>
    /\ argNew = <<"err", "ok", "expired">>
    /\ Len(ringRemoves) = 2

\* the sender's next entity-config event is a Create/Update of an entity of
\* class agent
AgentUpdateAtHead ==
    /\ updatesChannel # <<>>
    /\ Head(updatesChannel).action \notin {"Delete", "Unknown"}
    /\ Head(updatesChannel).hasEntity
    /\ Head(updatesChannel).entity.class = EntityAgentClass

\* C25: a marshal failure costs the sender one frame and nothing else. When
\* the entity of an agent-class Create/Update event cannot be marshalled, the
\* sender is back at its select with the deregister flag and the subscription
\* list of that entity; when a check request cannot be marshalled, the sender
\* is back at its select and has changed nothing but the check channel.
C25_MarshalFailureOnlySkipsFrame ==
    /\ [][(SenderSelectUpdates /\ AgentUpdateAtHead /\ nFaults' # nFaults) =>
             /\ pcSender' = "select"
             /\ deregister' = Head(updatesChannel).entity.deregister
             /\ cfgSubs' = sortSubscriptions(Head(updatesChannel).entity.subs)]_vars
    /\ [][(SenderSelectCheck /\ checkChannel # <<>> /\ nFaults' # nFaults) =>
             /\ pcSender' = "select"
             /\ UNCHANGED << cfgSubs, subscriptionsMap, handles, deregister >>]_vars

\* the bus still delivers to the subscription of handle h
Delivering(h) == handles[h].active

\* C26: a channel is closed only when no subscription delivers to it any
\* more: with the updates channel closed the entity-config subscription has
\* been cancelled, and with the check channel closed every check subscription
\* has been cancelled (stated for the runs in which no call of a collaborator
\* failed).
C26_NoSubscriptionOnClosedChannel ==
    nFaults = 0 =>
        /\ updatesClosed =>
              \A h \in 1..Len(handles) :
                  handles[h].topic = EntityConfigTopic(Namespace, AgentName)
                      => ~Delivering(h)
        /\ checkClosed =>
              \A h \in 1..Len(handles) :
                  handles[h].topic # EntityConfigTopic(Namespace, AgentName)
                      => ~Delivering(h)

\* stop() is past the drain of the entity-config subscription slot
StopPastDrain == pcStop \in {"snapshot", "unsubscribe", "closeChannels", "connClose", "done"}

\* C27: stop() gets past the drain of the slot only when Start has returned,
\* so its snapshot and its unsubscribe come after Start's own subscribe; and
\* the drain ends on every path of Start, the error returns that leave the
\* slot empty included.
C27_DrainWaitsForStart ==
    /\ [](StopPastDrain => pcStart = "returned" /\ slotClosed)
    /\ (pcStop = "drain") ~> StopPastDrain

\* stop() has got past the drain after a Start that failed before it stored
\* a handle in the slot
C27_Witness ==
    /\ StopPastDrain
    /\ startResult = "err"
    /\ "cancelEntityConfig" \notin Range(stopLog)

====
